---- MODULE Spec2Model ----
(***************************************************************************)
(* Verifiable encrypted aggregation for the smart grid (smart-grid-he):    *)
(* Pedersen commitments over a prime group, homomorphic aggregation by an  *)
(* untrusted coordinator, threshold detection on ciphertexts and the       *)
(* utility's verification.                                                 *)
(*                                                                         *)
(* Real numbers (Python floats) are exact rationals <<num, den>> with      *)
(* den > 0 in lowest terms.  A ciphertext is the record of the plaintext   *)
(* it encrypts (which only a secret-bearing context may read through       *)
(* decrypt_demand) together with the integrity flag of its checksum.       *)
(* The 2048-bit group of the source is scaled down to a safe prime whose   *)
(* generator 2 has the same structure (order (p-1)/2).                     *)
(***************************************************************************)
EXTENDS Integers, Sequences, FiniteSets, TLC

(* ------------------------------ bounds --------------------------------- *)

\* most households contributing to one round
MaxAgents == 2
\* most aggregator-role components constructed in one behaviour
MaxComponents == 2
\* most threshold detections kept side by side
MaxProbes == 2
\* rounds a coordinator processes
MaxRounds == 3
\* most time-series contributions aggregated in one call
MaxSeries == 2
\* most auto_run_loop tasks created in one behaviour
MaxLoops == 2
\* demand values are sampled every 1/(SubDiv * scale factor) kW
SubDiv == 4

(* ------------------------- program constants --------------------------- *)

\* verifiable_aggregation.py:84  (RFC 3526 group 14 in the source; here a
\* safe prime p = 2q + 1, q = 83, with p = 7 mod 8 as in the source, so
\* that g = 2 generates the subgroup of order q)
PEDERSEN_PRIME == 167
\* verifiable_aggregation.py:97
PEDERSEN_G == 2
\* verifiable_aggregation.py:104  sha256(_H_SEED) read as an integer
H_SEED_HASH == 20
\* verifiable_aggregation.py:109
DEFAULT_SCALE_FACTOR == 1000000

(* --------------------------- integer helpers --------------------------- *)

Abs(n) == IF n < 0 THEN -n ELSE n

RECURSIVE GCD(_, _)
GCD(a, b) == IF b = 0 THEN a ELSE GCD(b, a % b)

\* Python's a % m for m > 0: the result is in 0 .. m-1
PyMod(a, m) == ((a % m) + m) % m

\* Python's three-argument pow(b, e, m) for e >= 0
RECURSIVE pow(_, _, _)
pow(b, e, m) ==
    IF e = 0 THEN 1 % m
    ELSE LET half == pow(b, e \div 2, m)
             sq   == (half * half) % m
         IN  IF e % 2 = 1 THEN (sq * (b % m)) % m ELSE sq

(* ------------------------- rational arithmetic ------------------------- *)

RNorm(n, d) ==
    LET s == IF d < 0 THEN -1 ELSE 1
        k == GCD(Abs(n), Abs(d))
    IN  << s * ((Abs(n) \div k) * (IF n < 0 THEN -1 ELSE 1)), Abs(d) \div k >>

RInt(n) == << n, 1 >>

RNeg(a) == << -a[1], a[2] >>

RAdd(a, b) ==
    LET k == GCD(a[2], b[2])
        l == (a[2] \div k) * b[2]
    IN  RNorm(a[1] * (l \div a[2]) + b[1] * (l \div b[2]), l)

RSub(a, b) == RAdd(a, RNeg(b))

RMul(a, b) ==
    LET k1 == GCD(Abs(a[1]), b[2])
        k2 == GCD(Abs(b[1]), a[2])
    IN  RNorm((a[1] \div k1) * (b[1] \div k2), (a[2] \div k2) * (b[2] \div k1))

\* a / b for b # 0
RDiv(a, b) == RMul(a, IF b[1] < 0 THEN << -b[2], -b[1] >> ELSE << b[2], b[1] >>)

RLess(a, b) == RSub(a, b)[1] < 0

RLeq(a, b) == RSub(a, b)[1] <= 0

RAbs(a) == << Abs(a[1]), a[2] >>

RMin(a, b) == IF RLess(b, a) THEN b ELSE a

RMax(a, b) == IF RLess(a, b) THEN b ELSE a

\* Python's int(x) on a float: truncation toward zero
int(a) == IF a[1] >= 0 THEN a[1] \div a[2] ELSE -((-a[1]) \div a[2])

\* Python's round(x): nearest integer, ties to the even one
round(a) ==
    LET fl  == IF a[1] >= 0 THEN a[1] \div a[2]
               ELSE -(((-a[1]) + a[2] - 1) \div a[2])
        rem == 2 * (a[1] - fl * a[2])
    IN  IF rem < a[2] THEN fl
        ELSE IF rem > a[2] THEN fl + 1
        ELSE IF fl % 2 = 0 THEN fl ELSE fl + 1

\* sum() over a list of floats; the fractions are exact, so the sum is taken
\* by halves of the list
RECURSIVE RSum(_)
RSum(s) ==
    IF s = << >> THEN RInt(0)
    ELSE IF Len(s) = 1 THEN s[1]
    ELSE LET half == Len(s) \div 2
         IN  RAdd(RSum(SubSeq(s, 1, half)), RSum(SubSeq(s, half + 1, Len(s))))

RECURSIVE ISum(_)
ISum(s) == IF s = << >> THEN 0 ELSE Head(s) + ISum(Tail(s))

(* ------------------------------- state --------------------------------- *)

VARIABLES
    \* PedersenCommitmentScheme.scale_factor of the scheme in use
    scale_factor,
    \* the round's ciphertexts, in the order the agents produced them
    encrypted_demands,
    \* the PedersenCommitment objects the agents produced for the coordinator
    commitments_for_coordinator,
    \* the CommitmentOpening objects sent to the utility
    openings_for_utility,
    \* GridCoordinator: _round_count, _last_aggregation, _last_detection,
    \* _last_commitment_aggregate, grid_capacity_kw
    coordinator,
    \* the arguments of the latest process_round call, as the coordinator
    \* received them
    round_args,
    \* what the latest process_round call returned or raised
    round_outcome,
    \* the utility side of the round: openings aggregate, claimed sum,
    \* VerificationResult, outcome of UtilityDecisionMaker.verify_aggregation
    utility,
    \* position of the round: "collect", "aggregated", "verified"
    phase,
    \* aggregator-role components built so far and what their decrypt
    \* attempts gave
    components,
    \* the threshold detector's latest detection on a probe ciphertext
    probe,
    \* the latest call of an operation outside a round: its name, its
    \* arguments and what it returned or raised
    last_call,
    \* SmartGridServer: its round counter, the auto-run flag and the
    \* auto_run_loop tasks created so far, the agents' load balance factors
    \* and the decision the coordinator received last
    server

vars == << scale_factor, encrypted_demands, commitments_for_coordinator,
           openings_for_utility, coordinator, round_args, round_outcome,
           utility, phase, components, probe, last_call, server >>

\* Python's None
None == << >>

IsNone(x) == DOMAIN x = {}

\* a raised exception is a record with the field error
IsError(x) == "error" \in DOMAIN x

(* ------------------------ PedersenCommitmentScheme --------------------- *)

\* verifiable_aggregation.py:102  h = g^(sha256(seed)) mod p
PEDERSEN_H == pow(PEDERSEN_G, H_SEED_HASH, PEDERSEN_PRIME)

\* PedersenCommitmentScheme.__init__: order of the multiplicative group
group_order == PEDERSEN_PRIME - 1

\* the float -> int encoding of commit and verify: int(value * scale_factor)
scaled(value) == int(RMul(value, RInt(scale_factor)))

\* PedersenCommitmentScheme.commit with the blinding factor given
commit(value, randomness) ==
    LET m_scaled == scaled(value)
        g_m == pow(PEDERSEN_G, PyMod(m_scaled, group_order), PEDERSEN_PRIME)
        h_r == pow(PEDERSEN_H, PyMod(randomness, group_order), PEDERSEN_PRIME)
    IN  [ commitment   |-> (g_m * h_r) % PEDERSEN_PRIME,
          value        |-> value,
          randomness   |-> randomness,
          scale_factor |-> scale_factor ]

RECURSIVE product_mod(_, _)
product_mod(agg, commitments) ==
    IF commitments = << >> THEN agg
    ELSE product_mod((agg * Head(commitments).commitment) % PEDERSEN_PRIME,
                     Tail(commitments))

\* PedersenCommitmentScheme.aggregate_commitments
aggregate_commitments(commitments) ==
    IF commitments = << >> THEN [error |-> "ValueError"]
    ELSE [ commitment       |-> product_mod(1, commitments),
           individual_count |-> Len(commitments),
           scale_factor     |-> scale_factor ]

\* an aggregation of openings without the guard on the empty list
aggregate_openings_unguarded(openings) ==
    [ total_value      |-> RSum([i \in DOMAIN openings |-> openings[i].value]),
           total_randomness |-> ISum([i \in DOMAIN openings |-> openings[i].randomness])
                                    % group_order,
           scale_factor     |-> scale_factor,
           agent_count      |-> Len(openings) ]

\* PedersenCommitmentScheme.aggregate_openings
aggregate_openings(openings) ==
    IF openings = << >> THEN [error |-> "ValueError"]
    ELSE [ total_value      |-> RSum([i \in DOMAIN openings |-> openings[i].value]),
           total_randomness |-> ISum([i \in DOMAIN openings |-> openings[i].randomness])
                                    % group_order,
           scale_factor     |-> scale_factor,
           agent_count      |-> Len(openings) ]

\* PedersenCommitmentScheme.verify
verify(claimed_sum, commitment_aggregate, opening_aggregate) ==
    LET sum_scaled == scaled(claimed_sum)
        expected_commitment ==
            (pow(PEDERSEN_G, PyMod(sum_scaled, group_order), PEDERSEN_PRIME)
             * pow(PEDERSEN_H, PyMod(opening_aggregate.total_randomness, group_order),
                   PEDERSEN_PRIME)) % PEDERSEN_PRIME
        committed_sum == opening_aggregate.total_value
    IN  [ is_valid      |-> expected_commitment = commitment_aggregate.commitment,
          decrypted_sum |-> claimed_sum,
          committed_sum |-> committed_sum,
          discrepancy   |-> RAbs(RSub(claimed_sum, committed_sum)) ]

\* a contribution whose opening carries a blinding factor of its own
create_agent_contribution_reblinded(demand_kw, agent_id, sampled) ==
    LET commitment == commit(demand_kw, sampled)
    IN  << commitment,
           [ value        |-> demand_kw,
             randomness   |-> (sampled + 1) % group_order,
             scale_factor |-> commitment.scale_factor,
             agent_id     |-> agent_id ] >>

\* VerifiableAggregator.create_agent_contribution, with the blinding factor
\* that secrets.randbelow(group_order) returned inside commit
create_agent_contribution(demand_kw, agent_id, sampled) ==
    LET commitment == commit(demand_kw, sampled)
    IN  << commitment,
           [ value        |-> demand_kw,
             randomness   |-> commitment.randomness,
             scale_factor |-> commitment.scale_factor,
             agent_id     |-> agent_id ] >>

\* VerifiableAggregator.verify_aggregate (the pass/fail counters are
\* statistics and are kept by the caller's record)
verify_aggregate(decrypted_sum, commitment_aggregate, opening_aggregate) ==
    verify(decrypted_sum, commitment_aggregate, opening_aggregate)

(* ------------------------------ SmartGridFHE --------------------------- *)

\* SmartGridFHE.encrypt_demand for a single value
encrypt_demand(demand_kw, agent_id) ==
    [ plain       |-> demand_kw,
      agent_id    |-> agent_id,
      vector_size |-> 1,
      checksum_ok |-> TRUE,
      metadata    |-> {"operation_id"} ]

\* a decryption that does not compare the checksum
decrypt_demand_unverified(is_private, encrypted, noise) ==
    IF ~is_private THEN [error |-> "NoSecretKeyError"]
    ELSE [plaintext |-> RAdd(encrypted.plain, noise)]

\* SmartGridFHE.decrypt_demand on a context that is private or not; noise is
\* the approximation error of the scheme on this ciphertext.  Both failures
\* are ValueError in the source; they are told apart by their message:
\* "Cannot decrypt: context does not contain secret key" is NoSecretKeyError,
\* "Ciphertext integrity check failed" is IntegrityError.
decrypt_demand(is_private, encrypted, noise) ==
    IF ~is_private THEN [error |-> "NoSecretKeyError"]
    ELSE IF ~encrypted.checksum_ok THEN [error |-> "IntegrityError"]
    ELSE [plaintext |-> RAdd(encrypted.plain, noise)]

\* SmartGridFHE._save_encrypted
save_encrypted(plain, original, operation) ==
    [ plain       |-> plain,
      agent_id    |-> operation,
      vector_size |-> original.vector_size,
      checksum_ok |-> TRUE,
      metadata    |-> {"operation", "operation_id", "source_agents"} ]

\* SmartGridFHE.aggregate_demands
aggregate_demands(encrypted_list) ==
    IF Len(encrypted_list) = 0 THEN [error |-> "ValueError"]
    ELSE IF Len(encrypted_list) = 1 THEN encrypted_list[1]
    ELSE LET total == RSum([i \in DOMAIN encrypted_list |-> encrypted_list[i].plain])
             enc_result == save_encrypted(total, encrypted_list[1], "aggregated_aggregate")
         IN  [enc_result EXCEPT !.metadata = @ \cup {"agent_count"}]

\* an average that halves the total whatever the count
compute_average_halved(encrypted_total, count) ==
    LET enc_result == save_encrypted(RDiv(encrypted_total.plain, RInt(2)),
                                     encrypted_total, "aggregated_average")
    IN  [enc_result EXCEPT !.metadata = @ \cup {"divisor"}]

\* SmartGridFHE.compute_average
compute_average(encrypted_total, count) ==
    LET enc_result == save_encrypted(RDiv(encrypted_total.plain, RInt(count)),
                                     encrypted_total, "aggregated_average")
    IN  [enc_result EXCEPT !.metadata = @ \cup {"divisor"}]

\* SmartGridFHE.multiply_plain
multiply_plain(encrypted, scalar) ==
    LET enc_result == save_encrypted(RMul(encrypted.plain, scalar),
                                     encrypted, "aggregated_scaled")
    IN  [enc_result EXCEPT !.metadata = @ \cup {"scale_factor"}]

(* ----------------------- EncryptedThresholdDetector -------------------- *)

\* grid_coordinator.py:126  default_sensitivity handed to the detector
DETECTOR_DEFAULT_SENSITIVITY == 7
\* grid_coordinator.py:105  grid_capacity_kw default
DEFAULT_GRID_CAPACITY_KW == 100

Half == << 1, 2 >>

\* an adaptive sensitivity without the cap at 15
compute_adaptive_sensitivity_uncapped(default_sensitivity, threshold, expected_range) ==
    LET min_val == expected_range[1]
        max_val == expected_range[2]
        range_span == RSub(max_val, min_val)
    IN  IF RLeq(range_span, RInt(0)) THEN default_sensitivity
        ELSE LET relative_position == RDiv(RSub(threshold, min_val), range_span)
                 edge_factor == RMax(<< 1, 10 >>,
                                     RMin(relative_position,
                                          RSub(RInt(1), relative_position)))
                 k == RDiv(RInt(5), edge_factor)
             IN  RMax(k, RInt(3))

\* EncryptedThresholdDetector._compute_adaptive_sensitivity
compute_adaptive_sensitivity(default_sensitivity, threshold, expected_range) ==
    LET min_val == expected_range[1]
        max_val == expected_range[2]
        range_span == RSub(max_val, min_val)
    IN  IF RLeq(range_span, RInt(0)) THEN default_sensitivity
        ELSE LET relative_position == RDiv(RSub(threshold, min_val), range_span)
                 edge_factor == RMax(<< 1, 10 >>,
                                     RMin(relative_position,
                                          RSub(RInt(1), relative_position)))
                 k == RDiv(RInt(5), edge_factor)
             IN  RMax(RMin(k, RInt(15)), RInt(3))

\* a detector with slope 1/delta in place of 0.5/delta: its score leaves
\* [0, 1] half a soft-zone width from the threshold
detect_threshold_encrypted_steep(default_sensitivity, encrypted_value, threshold, expected_range, sensitivity) ==
    LET k == IF IsNone(sensitivity)
             THEN compute_adaptive_sensitivity(default_sensitivity, threshold,
                                               expected_range)
             ELSE sensitivity
    IN  IF k[1] = 0 THEN [error |-> "ZeroDivisionError"]
        ELSE LET delta == RDiv(threshold, k)
             IN  IF delta[1] = 0 THEN [error |-> "ZeroDivisionError"]
                 ELSE LET slope == RDiv(RInt(1), delta)
                          intercept == RSub(Half, RMul(threshold, slope))
                          score == RAdd(RMul(encrypted_value.plain, slope), intercept)
                      IN  [ encrypted_score |->
                              [ plain       |-> score,
                                agent_id    |-> "threshold_detection",
                                vector_size |-> encrypted_value.vector_size,
                                checksum_ok |-> TRUE,
                                metadata    |-> {"operation", "threshold", "sensitivity",
                                                 "soft_zone_width", "method"} ],
                            threshold       |-> threshold,
                            sensitivity     |-> k,
                            soft_zone_width |-> delta ]

\* EncryptedThresholdDetector.detect_threshold_encrypted; sensitivity is None
\* or the caller's k.  The score is the one ciphertext-times-plaintext
\* product and plaintext sum  vec_x * slope + intercept.
detect_threshold_encrypted(default_sensitivity, encrypted_value, threshold, expected_range, sensitivity) ==
    LET k == IF IsNone(sensitivity)
             THEN compute_adaptive_sensitivity(default_sensitivity, threshold,
                                               expected_range)
             ELSE sensitivity
    IN  IF k[1] = 0 THEN [error |-> "ZeroDivisionError"]
        ELSE LET delta == RDiv(threshold, k)
             IN  IF delta[1] = 0 THEN [error |-> "ZeroDivisionError"]
                 ELSE LET slope == RDiv(Half, delta)
                          intercept == RSub(Half, RMul(threshold, slope))
                          score == RAdd(RMul(encrypted_value.plain, slope), intercept)
                      IN  [ encrypted_score |->
                              [ plain       |-> score,
                                agent_id    |-> "threshold_detection",
                                vector_size |-> encrypted_value.vector_size,
                                checksum_ok |-> TRUE,
                                metadata    |-> {"operation", "threshold", "sensitivity",
                                                 "soft_zone_width", "method"} ],
                            threshold       |-> threshold,
                            sensitivity     |-> k,
                            soft_zone_width |-> delta ]

(* --------------------- aggregator-role components ---------------------- *)

\* SmartGridFHE.get_public_context / get_secret_context: the serialized
\* context either carries the secret key or not
public_context == [is_private |-> FALSE]

secret_context == [is_private |-> TRUE]

\* SmartGridFHE.from_context: the engine's context is the deserialized one;
\* the has_secret_key argument is not used
from_context(context_bytes, has_secret_key) ==
    [is_private |-> context_bytes.is_private]

\* an aggregator that takes whatever context it is handed
EncryptedAggregator_init_any_context(context_bytes) ==
    LET fhe == from_context(context_bytes, FALSE)
    IN  [kind |-> "EncryptedAggregator", fhe |-> fhe]

\* EncryptedAggregator.__init__
EncryptedAggregator_init(context_bytes) ==
    LET fhe == from_context(context_bytes, FALSE)
    IN  IF fhe.is_private THEN [error |-> "ValueError"]
        ELSE [kind |-> "EncryptedAggregator", fhe |-> fhe]

\* EncryptedLoadBalancer.__init__
EncryptedLoadBalancer_init(context_bytes) ==
    LET fhe == from_context(context_bytes, FALSE)
    IN  IF fhe.is_private THEN [error |-> "ValueError"]
        ELSE [kind |-> "EncryptedLoadBalancer", fhe |-> fhe]

\* GridCoordinator.__init__: builds its aggregator and load balancer, whose
\* handle it then checks again
GridCoordinator_init(context_bytes) ==
    LET aggregator == EncryptedAggregator_init(context_bytes)
        load_balancer == EncryptedLoadBalancer_init(context_bytes)
    IN  IF IsError(aggregator) THEN aggregator
        ELSE IF IsError(load_balancer) THEN load_balancer
        ELSE IF aggregator.fhe.is_private THEN [error |-> "ValueError"]
        ELSE [kind |-> "GridCoordinator", fhe |-> aggregator.fhe]

\* EncryptedAggregator.aggregate
aggregate(encrypted_list) ==
    IF Len(encrypted_list) = 0 THEN [error |-> "ValueError"]
    ELSE LET encrypted_total == aggregate_demands(encrypted_list)
         IN  [ encrypted_total   |-> encrypted_total,
               encrypted_average |-> compute_average(encrypted_total,
                                                     Len(encrypted_list)),
               agent_count       |-> Len(encrypted_list) ]

\* EncryptedLoadBalancer.compute_encrypted_utilization
compute_encrypted_utilization(grid_capacity_kw, encrypted_total) ==
    IF grid_capacity_kw[1] = 0 THEN [error |-> "ZeroDivisionError"]
    ELSE multiply_plain(encrypted_total, RDiv(RInt(1), grid_capacity_kw))

\* GridCoordinator.process_round: the coordinator's fields after the call
\* and what the call returned or raised.  result.encrypted_total is one
\* object: the metadata written to it shows in _last_aggregation as well.
process_round(self, demands, commitments) ==
    LET counted == [self EXCEPT !._round_count = @ + 1]
        result == aggregate(demands)
    IN  IF IsError(result) THEN [self |-> counted, returned |-> result]
        ELSE
        LET stored == [counted EXCEPT !._last_aggregation = result]
            encrypted_util == compute_encrypted_utilization(self.grid_capacity_kw,
                                                            result.encrypted_total)
        IN  IF IsError(encrypted_util) THEN [self |-> stored, returned |-> encrypted_util]
            ELSE
            LET result1 == [result EXCEPT !.encrypted_total.metadata =
                                              @ \cup {"encrypted_utilization"}]
                detection_result ==
                    detect_threshold_encrypted(RInt(DETECTOR_DEFAULT_SENSITIVITY),
                        result1.encrypted_total, self.grid_capacity_kw,
                        << RInt(0), RMul(self.grid_capacity_kw, RInt(3)) >>, None)
            IN  IF IsError(detection_result)
                THEN [self |-> [stored EXCEPT !._last_aggregation = result1],
                      returned |-> detection_result]
                ELSE
                LET result2 == [result1 EXCEPT !.encrypted_total.metadata =
                                                   @ \cup {"threshold_detection"}]
                    aggregating == /\ ~IsNone(commitments)
                                   /\ Len(commitments) > 0
                                   /\ Len(commitments) = Len(demands)
                    result3 == IF aggregating
                               THEN [result2 EXCEPT !.encrypted_total.metadata =
                                                        @ \cup {"commitment_aggregate"}]
                               ELSE result2
                IN  [ self |-> [stored EXCEPT
                                  !._last_aggregation = result3,
                                  !._last_detection = detection_result,
                                  !._last_commitment_aggregate =
                                      IF aggregating
                                      THEN aggregate_commitments(commitments)
                                      ELSE @ ],
                      returned |-> result3 ]

\* UtilityDecisionMaker.verify_aggregation: the call
\* self.verifiable_aggregator.verify_aggregate(decrypted_sum, commitment_aggregate)
\* leaves out the required opening_aggregate argument, which Python answers
\* with TypeError before verify_aggregate runs
verify_aggregation(decrypted_sum, commitment_aggregate) ==
    [error |-> "TypeError"]

(* ------------------------------- inputs -------------------------------- *)

\* demand values in steps of 1/(SubDiv * scale factor) kW: values on the
\* 1/S grid (0 and 4 steps) and between grid points
DemandTicks == {0, 1, 2, 3, 4}

Demands == { RNorm(k, SubDiv * DEFAULT_SCALE_FACTOR) : k \in DemandTicks }

\* blinding factors secrets.randbelow(group_order) can return: the ends of
\* 0 .. p-2, 1, and the order (p-1)/2 of h
Randomness == {0, 1, (PEDERSEN_PRIME - 1) \div 2, PEDERSEN_PRIME - 2}

\* spec.md scenario A: the decrypted aggregate is within 1e-3 of the sum
HE_TOLERANCE == << 1, 1000 >>

\* approximation errors of a decryption, all within HE_TOLERANCE
HENoise == { RInt(0), << -1, SubDiv * DEFAULT_SCALE_FACTOR >>, << 1, 2000 >> }

\* what a misreporting aggregator adds to the decrypted sum: nothing, the
\* scale resolution 1/S either way, and the 10 kW of the demo
CheatOffsets == { RInt(0), << 1, DEFAULT_SCALE_FACTOR >>,
                  << -1, DEFAULT_SCALE_FACTOR >>, RInt(10) }

\* the subsequence of s at the indices in keep
RECURSIVE SubSeq_at(_, _, _)
SubSeq_at(s, keep, i) ==
    IF i > Len(s) THEN << >>
    ELSE IF i \in keep THEN << s[i] >> \o SubSeq_at(s, keep, i + 1)
    ELSE SubSeq_at(s, keep, i + 1)

(* -------------------------------- Init --------------------------------- *)

\* SmartGridServer.__init__ and initialize: no round run, auto-run off, no
\* loop task, every agent at load balance factor 1.0 and no decision yet
SmartGridServer_init ==
    [ round_count         |-> 0,
      auto_run            |-> FALSE,
      loops               |-> << >>,
      grid_capacity_kw    |-> RInt(DEFAULT_GRID_CAPACITY_KW),
      load_balance_factor |-> [i \in 1 .. MaxAgents |-> RInt(1)],
      _last_decision      |-> None ]

Init ==
    /\ scale_factor = DEFAULT_SCALE_FACTOR
    /\ encrypted_demands = << >>
    /\ commitments_for_coordinator = << >>
    /\ openings_for_utility = << >>
    /\ coordinator = [ _round_count               |-> 0,
                       _last_aggregation          |-> None,
                       _last_detection            |-> None,
                       _last_commitment_aggregate |-> None,
                       grid_capacity_kw |-> RInt(DEFAULT_GRID_CAPACITY_KW) ]
    /\ round_args = [ encrypted_demands |-> << >>, commitments |-> None,
                      kept |-> {}, with_commitments |-> {} ]
    /\ round_outcome = None
    /\ utility = [ called |-> "nothing" ]
    /\ phase = "collect"
    /\ components = << >>
    /\ probe = << >>
    /\ last_call = [ op |-> "nothing" ]
    /\ server = SmartGridServer_init

(* ----------------------- the verification round ------------------------ *)

\* one agent of the demo loop: create_agent_contribution and encrypt_demand
CreateContribution ==
    /\ phase = "collect"
    /\ Len(encrypted_demands) < MaxAgents
    /\ \E demand \in Demands, sampled \in Randomness :
         LET agent_id == Len(encrypted_demands) + 1
             contribution == create_agent_contribution(demand, agent_id, sampled)
         IN  /\ commitments_for_coordinator' =
                    Append(commitments_for_coordinator, contribution[1])
             /\ openings_for_utility' = Append(openings_for_utility, contribution[2])
             /\ encrypted_demands' =
                    Append(encrypted_demands, encrypt_demand(demand, agent_id))
    /\ UNCHANGED << scale_factor, coordinator, round_args, round_outcome, utility,
                    phase, components, probe, last_call, server >>

\* the coordinator processes the round on the ciphertexts it keeps (an
\* honest one keeps all) and on the commitments of the households in
\* with_commitments (none when the round runs without verification)
ProcessRound ==
    /\ phase = "collect"
    /\ \E kept \in SUBSET DOMAIN encrypted_demands,
          with_commitments \in SUBSET DOMAIN encrypted_demands :
         LET demands == SubSeq_at(encrypted_demands, kept, 1)
             commitments == SubSeq_at(commitments_for_coordinator, with_commitments, 1)
             call == process_round(coordinator, demands, commitments)
         IN  /\ coordinator' = call.self
             /\ round_args' = [ encrypted_demands |-> demands,
                                commitments |-> commitments, kept |-> kept,
                                with_commitments |-> with_commitments ]
             /\ round_outcome' = call.returned
             /\ phase' = IF IsError(call.returned) THEN "failed" ELSE "aggregated"
             \* aggregate_demands returns its only input itself, so the
             \* metadata process_round writes lands on the agent's object
             /\ encrypted_demands' =
                    IF Cardinality(kept) = 1 /\ ~IsError(call.returned)
                    THEN [i \in DOMAIN encrypted_demands |->
                            IF i \in kept THEN call.returned.encrypted_total
                            ELSE encrypted_demands[i]]
                    ELSE encrypted_demands
    /\ UNCHANGED << scale_factor, commitments_for_coordinator, openings_for_utility,
                    utility, components, probe, last_call, server >>

\* the utility's side of the demo: aggregate the openings it received,
\* decrypt the aggregate (within the scheme's error), and verify the sum it
\* is told, which a misreporting aggregator has offset
UtilityVerify ==
    /\ phase = "aggregated"
    /\ ~IsNone(coordinator._last_commitment_aggregate)
    /\ \E noise \in HENoise, offset \in CheatOffsets :
         LET opening_aggregate == aggregate_openings(openings_for_utility)
             decrypted == decrypt_demand(secret_context.is_private,
                                         round_outcome.encrypted_total, noise)
             claimed_sum == RAdd(decrypted.plaintext, offset)
         IN  utility' = [ called |-> "verify_aggregate",
                          opening_aggregate |-> opening_aggregate,
                          noise |-> noise,
                          offset |-> offset,
                          claimed_sum |-> claimed_sum,
                          result |-> verify_aggregate(claimed_sum,
                                         coordinator._last_commitment_aggregate,
                                         opening_aggregate) ]
    /\ phase' = "verified"
    /\ UNCHANGED << scale_factor, encrypted_demands, commitments_for_coordinator,
                    openings_for_utility, coordinator, round_args, round_outcome,
                    components, probe, last_call, server >>

\* the utility verifies the round through UtilityDecisionMaker
UtilityVerifyAggregation ==
    /\ phase = "aggregated"
    /\ ~IsNone(coordinator._last_commitment_aggregate)
    /\ \E noise \in HENoise :
         LET decrypted == decrypt_demand(secret_context.is_private,
                                         round_outcome.encrypted_total, noise)
         IN  utility' = [ called |-> "verify_aggregation",
                          noise |-> noise,
                          claimed_sum |-> decrypted.plaintext,
                          result |-> verify_aggregation(decrypted.plaintext,
                                         coordinator._last_commitment_aggregate) ]
    /\ phase' = "verified"
    /\ UNCHANGED << scale_factor, encrypted_demands, commitments_for_coordinator,
                    openings_for_utility, coordinator, round_args, round_outcome,
                    components, probe, last_call, server >>

NextVerify ==
    \/ CreateContribution
    \/ ProcessRound
    \/ UtilityVerify
    \/ UtilityVerifyAggregation

SpecVerify == Init /\ [][NextVerify]_vars

(* ------------------- construction of the components ------------------- *)

ComponentKinds == {"EncryptedAggregator", "EncryptedLoadBalancer", "GridCoordinator"}

\* ciphertexts a component may be asked to decrypt: fresh ones and ones whose
\* bytes no longer match the stored checksum
Samples ==
    { [encrypt_demand(d, 1) EXCEPT !.checksum_ok = ok] :
          d \in Demands, ok \in BOOLEAN }

\* an aggregator-role component is constructed from a serialized context
Construct ==
    /\ Len(components) < MaxComponents
    /\ \E kind \in ComponentKinds, context_bytes \in {public_context, secret_context} :
         LET built == IF kind = "EncryptedAggregator"
                      THEN EncryptedAggregator_init(context_bytes)
                      ELSE IF kind = "EncryptedLoadBalancer"
                      THEN EncryptedLoadBalancer_init(context_bytes)
                      ELSE GridCoordinator_init(context_bytes)
         IN  components' = Append(components,
                                  [ kind |-> kind, context_bytes |-> context_bytes,
                                    built |-> built, attempt |-> None ])
    /\ UNCHANGED << scale_factor, encrypted_demands, commitments_for_coordinator,
                    openings_for_utility, coordinator, round_args, round_outcome,
                    utility, phase, probe, last_call, server >>

\* EncryptedAggregator.verify_cannot_decrypt, or any other code of the
\* component, calls self.fhe.decrypt_demand(sample)
DecryptAttempt ==
    /\ \E i \in DOMAIN components, sample \in Samples :
         /\ ~IsError(components[i].built)
         /\ components' =
                [components EXCEPT ![i].attempt =
                    [ sample |-> sample,
                      outcome |-> decrypt_demand(components[i].built.fhe.is_private,
                                                 sample, RInt(0)) ]]
    /\ UNCHANGED << scale_factor, encrypted_demands, commitments_for_coordinator,
                    openings_for_utility, coordinator, round_args, round_outcome,
                    utility, phase, probe, last_call, server >>

NextRoles ==
    \/ Construct
    \/ DecryptAttempt

SpecRoles == Init /\ [][NextRoles]_vars

(* ------------------------- threshold detection ------------------------- *)

\* thresholds handed to the detector
Thresholds == { RInt(100), << 1, 2 >>, RInt(0) }

\* the caller's sensitivity: left out (adaptive), or an explicit k
Sensitivities == { None, RInt(7), RInt(3) }

\* EncryptedThresholdDetector.detect_threshold_encrypted default range
DEFAULT_EXPECTED_RANGE == << RInt(0), RInt(200) >>

\* the sensitivity a detection with these arguments works with
effective_sensitivity(threshold, sensitivity) ==
    IF IsNone(sensitivity)
    THEN compute_adaptive_sensitivity(RInt(DETECTOR_DEFAULT_SENSITIVITY),
                                      threshold, DEFAULT_EXPECTED_RANGE)
    ELSE sensitivity

\* encrypted values to classify: the threshold and points half a soft-zone
\* width apart around it, inside and outside the band
ProbeValues(threshold, sensitivity) ==
    IF threshold[1] = 0 THEN { RInt(0), RInt(1) }
    ELSE LET delta == RDiv(threshold, effective_sensitivity(threshold, sensitivity))
         IN  { RAdd(threshold, RMul(<< j, 2 >>, delta)) : j \in -3 .. 3 }

\* the coordinator's detector classifies an encrypted value
Detect ==
    /\ Len(probe) < MaxProbes
    /\ \E threshold \in Thresholds, sensitivity \in Sensitivities :
         \E x \in ProbeValues(threshold, sensitivity) :
           probe' = Append(probe,
                      [ x |-> x,
                        threshold |-> threshold,
                        sensitivity |-> sensitivity,
                        result |-> detect_threshold_encrypted(
                                       RInt(DETECTOR_DEFAULT_SENSITIVITY),
                                       encrypt_demand(x, 1), threshold,
                                       DEFAULT_EXPECTED_RANGE, sensitivity) ])
    /\ UNCHANGED << scale_factor, encrypted_demands, commitments_for_coordinator,
                    openings_for_utility, coordinator, round_args, round_outcome,
                    utility, phase, components, last_call, server >>

NextDetect == Detect

SpecDetect == Init /\ [][NextDetect]_vars

(* ------------------- operations called outside a round ---------------- *)

\* EncryptedThresholdDetector.batch_detect: the list comprehension calls
\* detect_threshold_encrypted for each threshold in order, and the first
\* exception ends it
RECURSIVE batch_detect(_, _, _, _)
batch_detect(default_sensitivity, encrypted_value, thresholds, expected_range) ==
    IF thresholds = << >> THEN [results |-> << >>]
    ELSE LET first == detect_threshold_encrypted(default_sensitivity, encrypted_value,
                          Head(thresholds), expected_range, None)
         IN  IF IsError(first) THEN first
             ELSE LET rest == batch_detect(default_sensitivity, encrypted_value,
                                           Tail(thresholds), expected_range)
                  IN  IF IsError(rest) THEN rest
                      ELSE [results |-> << first >> \o rest.results]

\* EncryptedThresholdDetector.ZONE_BELOW_THRESHOLD
ZONE_BELOW_THRESHOLD == << 3, 10 >>

\* EncryptedThresholdDetector.ZONE_ABOVE_THRESHOLD
ZONE_ABOVE_THRESHOLD == << 7, 10 >>

\* an interpretation that clamps neither the score nor the confidence
interpret_score_unclamped(decrypted_score, threshold) ==
    LET clamped_score == decrypted_score
        zone == IF RLess(clamped_score, ZONE_BELOW_THRESHOLD) THEN "below"
                ELSE IF RLess(ZONE_ABOVE_THRESHOLD, clamped_score) THEN "above"
                ELSE "uncertain"
        confidence ==
            IF zone = "below"
            THEN RSub(RInt(1), RDiv(clamped_score, ZONE_BELOW_THRESHOLD))
            ELSE IF zone = "above"
            THEN RDiv(RSub(clamped_score, ZONE_ABOVE_THRESHOLD),
                      RSub(RInt(1), ZONE_ABOVE_THRESHOLD))
            ELSE RDiv(RAbs(RSub(clamped_score, Half)), << 1, 5 >>)
    IN  [ raw_score  |-> decrypted_score,
          zone       |-> zone,
          confidence |-> confidence,
          threshold  |-> IF IsNone(threshold) THEN RInt(0) ELSE threshold ]

\* EncryptedThresholdDetector.interpret_score
interpret_score(decrypted_score, threshold) ==
    LET clamped_score == RMax(RInt(0), RMin(RInt(1), decrypted_score))
        zone == IF RLess(clamped_score, ZONE_BELOW_THRESHOLD) THEN "below"
                ELSE IF RLess(ZONE_ABOVE_THRESHOLD, clamped_score) THEN "above"
                ELSE "uncertain"
        confidence ==
            IF zone = "below"
            THEN RSub(RInt(1), RDiv(clamped_score, ZONE_BELOW_THRESHOLD))
            ELSE IF zone = "above"
            THEN RDiv(RSub(clamped_score, ZONE_ABOVE_THRESHOLD),
                      RSub(RInt(1), ZONE_ABOVE_THRESHOLD))
            ELSE RDiv(RAbs(RSub(clamped_score, Half)), << 1, 5 >>)
    IN  [ raw_score  |-> decrypted_score,
          zone       |-> zone,
          confidence |-> RMin(RInt(1), RMax(RInt(0), confidence)),
          threshold  |-> IF IsNone(threshold) THEN RInt(0) ELSE threshold ]

\* a decision whose tiers exclude their upper boundary
make_decision_strict(grid_capacity_kw, encrypted_total, agent_count, noise) ==
    LET decrypted == decrypt_demand(secret_context.is_private, encrypted_total, noise)
    IN  IF IsError(decrypted) THEN decrypted
        ELSE IF grid_capacity_kw[1] = 0 THEN [error |-> "ZeroDivisionError"]
        ELSE
        LET total_demand == decrypted.plaintext
            utilization == RDiv(total_demand, grid_capacity_kw)
            action == IF RLess(utilization, << 4, 5 >>) THEN "none"
                      ELSE IF RLess(utilization, << 9, 10 >>) THEN "reduce_10"
                      ELSE IF RLess(utilization, << 19, 20 >>) THEN "reduce_20"
                      ELSE IF RLess(utilization, RInt(1)) THEN "reduce_30"
                      ELSE "critical"
            reduction_factor == IF action = "none" THEN RInt(1)
                                ELSE IF action = "reduce_10" THEN << 9, 10 >>
                                ELSE IF action = "reduce_20" THEN << 4, 5 >>
                                ELSE IF action = "reduce_30" THEN << 7, 10 >>
                                ELSE << 1, 2 >>
        IN  [ action              |-> action,
              reduction_factor    |-> reduction_factor,
              total_demand_kw     |-> total_demand,
              grid_capacity_kw    |-> grid_capacity_kw,
              utilization_percent |-> RMul(utilization, RInt(100)) ]

\* UtilityDecisionMaker.make_decision; self.fhe holds the secret context,
\* noise is the approximation error of this decryption
make_decision(grid_capacity_kw, encrypted_total, agent_count, noise) ==
    LET decrypted == decrypt_demand(secret_context.is_private, encrypted_total, noise)
    IN  IF IsError(decrypted) THEN decrypted
        ELSE IF grid_capacity_kw[1] = 0 THEN [error |-> "ZeroDivisionError"]
        ELSE
        LET total_demand == decrypted.plaintext
            utilization == RDiv(total_demand, grid_capacity_kw)
            action == IF RLeq(utilization, << 4, 5 >>) THEN "none"
                      ELSE IF RLeq(utilization, << 9, 10 >>) THEN "reduce_10"
                      ELSE IF RLeq(utilization, << 19, 20 >>) THEN "reduce_20"
                      ELSE IF RLeq(utilization, RInt(1)) THEN "reduce_30"
                      ELSE "critical"
            reduction_factor == IF action = "none" THEN RInt(1)
                                ELSE IF action = "reduce_10" THEN << 9, 10 >>
                                ELSE IF action = "reduce_20" THEN << 4, 5 >>
                                ELSE IF action = "reduce_30" THEN << 7, 10 >>
                                ELSE << 1, 2 >>
        IN  [ action              |-> action,
              reduction_factor    |-> reduction_factor,
              total_demand_kw     |-> total_demand,
              grid_capacity_kw    |-> grid_capacity_kw,
              utilization_percent |-> RMul(utilization, RInt(100)) ]

\* UtilityDecisionMaker.interpret_encrypted_comparison: after the decryption,
\* zone, confidence = interpret_score(decrypted_score) unpacks an
\* InterpretedResult, a dataclass that is not iterable: TypeError
interpret_encrypted_comparison(comparison_result, noise) ==
    LET decrypted == decrypt_demand(secret_context.is_private,
                                    comparison_result.encrypted_score, noise)
    IN  IF IsError(decrypted) THEN decrypted
        ELSE LET interpreted == interpret_score(decrypted.plaintext, None)
             IN  [error |-> "TypeError"]

\* what a call outside a round leaves alone
round_vars == << encrypted_demands, commitments_for_coordinator, openings_for_utility,
                 coordinator, round_args, round_outcome, utility, phase, components,
                 probe, server >>

\* threshold lists handed to batch_detect
ThresholdLists ==
    { << t >> : t \in Thresholds } \cup { << t, u >> : t \in Thresholds, u \in Thresholds }

\* the detector compares one encrypted value against a list of thresholds
BatchDetect ==
    /\ \E thresholds \in ThresholdLists, x \in { RInt(0), RInt(50), RInt(100) } :
         last_call' = [ op |-> "batch_detect",
                        x |-> x,
                        thresholds |-> thresholds,
                        result |-> batch_detect(RInt(DETECTOR_DEFAULT_SENSITIVITY),
                                       encrypt_demand(x, 1), thresholds,
                                       DEFAULT_EXPECTED_RANGE) ]
    /\ UNCHANGED << scale_factor, round_vars >>

\* grid capacities of the utility: run_demo's 75 kW and the default
Capacities == { RInt(75), RInt(DEFAULT_GRID_CAPACITY_KW) }

\* utilizations to decide on: the tier boundaries, points between them and
\* points outside 0 .. 1
Utilizations ==
    { RInt(0), << 3, 5 >>, << 4, 5 >>, << 17, 20 >>, << 9, 10 >>, << 37, 40 >>,
      << 19, 20 >>, << 39, 40 >>, RInt(1), << 3, 2 >>, << -1, 10 >> }

\* the utility decrypts an aggregate and decides
MakeDecision ==
    /\ \E grid_capacity_kw \in Capacities, u \in Utilizations,
          noise \in { RInt(0), << 1, 2000 >> }, ok \in BOOLEAN :
         LET encrypted_total ==
                 [encrypt_demand(RMul(u, grid_capacity_kw), 1) EXCEPT !.checksum_ok = ok]
         IN  last_call' = [ op |-> "make_decision",
                            grid_capacity_kw |-> grid_capacity_kw,
                            encrypted_total |-> encrypted_total,
                            noise |-> noise,
                            result |-> make_decision(grid_capacity_kw, encrypted_total,
                                                     1, noise) ]
    /\ UNCHANGED << scale_factor, round_vars >>

\* decrypted scores: in steps of 1/20 from -1/2 to 3/2
Scores == { RNorm(k, 20) : k \in -10 .. 30 }

\* the utility interprets a decrypted score
InterpretScore ==
    /\ \E decrypted_score \in Scores, threshold \in { None, RInt(100) } :
         last_call' = [ op |-> "interpret_score",
                        decrypted_score |-> decrypted_score,
                        result |-> interpret_score(decrypted_score, threshold) ]
    /\ UNCHANGED << scale_factor, round_vars >>

\* the utility interprets a comparison result the detector produced
InterpretEncryptedComparison ==
    /\ \E threshold \in Thresholds, sensitivity \in Sensitivities :
         \E x \in ProbeValues(threshold, sensitivity) :
           LET comparison_result ==
                   detect_threshold_encrypted(RInt(DETECTOR_DEFAULT_SENSITIVITY),
                       encrypt_demand(x, 1), threshold, DEFAULT_EXPECTED_RANGE,
                       sensitivity)
           IN  /\ ~IsError(comparison_result)
               /\ last_call' = [ op |-> "interpret_encrypted_comparison",
                                 comparison_result |-> comparison_result,
                                 result |-> interpret_encrypted_comparison(
                                                comparison_result, RInt(0)) ]
    /\ UNCHANGED << scale_factor, round_vars >>

\* the lists of at most two elements of a set
ShortLists(S) == { << >> } \cup { << a >> : a \in S } \cup { << a, b >> : a \in S, b \in S }

\* PedersenCommitmentScheme.aggregate_commitments is called on a list
AggregateCommitmentsCall ==
    /\ \E commitments \in ShortLists({ commit(d, r) : d \in Demands, r \in {0, 1} }) :
         last_call' = [ op |-> "aggregate_commitments",
                        args |-> commitments,
                        result |-> aggregate_commitments(commitments) ]
    /\ UNCHANGED << scale_factor, round_vars >>

\* PedersenCommitmentScheme.aggregate_openings is called on a list
AggregateOpeningsCall ==
    /\ \E openings \in ShortLists({ create_agent_contribution(d, 1, r)[2] :
                                       d \in Demands, r \in {0, 1} }) :
         last_call' = [ op |-> "aggregate_openings",
                        args |-> openings,
                        result |-> aggregate_openings(openings) ]
    /\ UNCHANGED << scale_factor, round_vars >>

\* EncryptedAggregator.aggregate is called on a list of ciphertexts
AggregateCall ==
    /\ \E encrypted_list \in ShortLists({ encrypt_demand(d, 1) : d \in Demands }) :
         last_call' = [ op |-> "aggregate",
                        args |-> encrypted_list,
                        result |-> aggregate(encrypted_list) ]
    /\ UNCHANGED << scale_factor, round_vars >>

\* PedersenCommitmentScheme.__init__: the arguments are stored as they come
PedersenCommitmentScheme_init(S) ==
    [ p |-> PEDERSEN_PRIME, g |-> PEDERSEN_G, h |-> PEDERSEN_H,
      scale_factor |-> S, group_order |-> PEDERSEN_PRIME - 1 ]

\* scale factors a scheme is configured with
ScaleFactors == { DEFAULT_SCALE_FACTOR, 1000, 0, -1 }

\* a commitment scheme is constructed with a scale factor
ConfigureScheme ==
    /\ \E S \in ScaleFactors :
         LET scheme == PedersenCommitmentScheme_init(S)
         IN  /\ last_call' = [ op |-> "PedersenCommitmentScheme",
                               args |-> S, result |-> scheme ]
             /\ scale_factor' = IF IsError(scheme) THEN scale_factor
                                ELSE scheme.scale_factor
    /\ UNCHANGED round_vars

\* the scheme in use commits to a value
CommitCall ==
    /\ \E value \in Demands \cup { RInt(3), << 1, 1000 >> }, randomness \in Randomness :
         last_call' = [ op |-> "commit",
                        args |-> << value, randomness >>,
                        result |-> commit(value, randomness) ]
    /\ UNCHANGED << scale_factor, round_vars >>

\* the utility, holding the secret context, decrypts a ciphertext
UtilityDecrypt ==
    /\ \E encrypted \in Samples, noise \in HENoise :
         last_call' = [ op |-> "decrypt_demand",
                        args |-> encrypted,
                        noise |-> noise,
                        result |-> decrypt_demand(secret_context.is_private,
                                                  encrypted, noise) ]
    /\ UNCHANGED << scale_factor, round_vars >>

NextCalls ==
    \/ BatchDetect
    \/ MakeDecision
    \/ InterpretScore
    \/ InterpretEncryptedComparison
    \/ AggregateCommitmentsCall
    \/ AggregateOpeningsCall
    \/ AggregateCall
    \/ ConfigureScheme
    \/ CommitCall
    \/ UtilityDecrypt

SpecCalls == Init /\ [][NextCalls]_vars

(* --------------------------- successive rounds ------------------------- *)

\* GridCoordinator.get_detection_result
get_detection_result(self) == self._last_detection

\* GridCoordinator.get_commitment_aggregate
get_commitment_aggregate(self) == self._last_commitment_aggregate

\* what the households of a round send: demand, blinding factor, sender.
\* One household, two households, and one household sending twice.
RoundContributions ==
    { << [demand_kw |-> RInt(3), sampled |-> 1, agent_id |-> 1] >>,
      << [demand_kw |-> RInt(3), sampled |-> 1, agent_id |-> 1],
         [demand_kw |-> RInt(5), sampled |-> PEDERSEN_PRIME - 2, agent_id |-> 2] >>,
      << [demand_kw |-> RInt(3), sampled |-> 1, agent_id |-> 1],
         [demand_kw |-> RInt(4), sampled |-> 1, agent_id |-> 1] >> }

\* grid capacities a coordinator is constructed with
CoordinatorCapacities == { RInt(DEFAULT_GRID_CAPACITY_KW), RInt(0) }

\* a coordinator constructed with either capacity, before its first round
InitRounds ==
    /\ scale_factor = DEFAULT_SCALE_FACTOR
    /\ encrypted_demands = << >>
    /\ commitments_for_coordinator = << >>
    /\ openings_for_utility = << >>
    /\ \E grid_capacity_kw \in CoordinatorCapacities :
         coordinator = [ _round_count               |-> 0,
                         _last_aggregation          |-> None,
                         _last_detection            |-> None,
                         _last_commitment_aggregate |-> None,
                         grid_capacity_kw           |-> grid_capacity_kw ]
    /\ round_args = [ encrypted_demands |-> << >>, commitments |-> None,
                      kept |-> {}, with_commitments |-> {} ]
    /\ round_outcome = None
    /\ utility = [ called |-> "nothing" ]
    /\ phase = "collect"
    /\ components = << >>
    /\ probe = << >>
    /\ last_call = [ op |-> "nothing" ]
    /\ server = SmartGridServer_init

\* the households' contributions of the next round arrive: everything of
\* the round before is dropped
StartRound ==
    /\ coordinator._round_count < MaxRounds
    /\ \E contributions \in RoundContributions :
         LET made == [i \in DOMAIN contributions |->
                        create_agent_contribution(contributions[i].demand_kw,
                                                  contributions[i].agent_id,
                                                  contributions[i].sampled)]
         IN  /\ commitments_for_coordinator' = [i \in DOMAIN made |-> made[i][1]]
             /\ openings_for_utility' = [i \in DOMAIN made |-> made[i][2]]
             /\ encrypted_demands' =
                    [i \in DOMAIN contributions |->
                       encrypt_demand(contributions[i].demand_kw,
                                      contributions[i].agent_id)]
    /\ utility' = [ called |-> "nothing" ]
    /\ phase' = "collect"
    /\ UNCHANGED << scale_factor, coordinator, round_args, round_outcome,
                    components, probe, last_call, server >>

NextRounds ==
    \/ StartRound
    \/ ProcessRound

SpecRounds == InitRounds /\ [][NextRounds]_vars

(* ----------------------- contributions in transit ---------------------- *)

\* a household's contribution reaches the coordinator: the ciphertext and
\* the commitment.  In transit the EncryptedDemand may have been altered so
\* that its checksum no longer matches its ciphertext bytes (the bytes are
\* still a ciphertext of the scheme).
SubmitContribution ==
    /\ phase = "collect"
    /\ Len(encrypted_demands) < MaxAgents
    /\ \E demand \in Demands, intact \in BOOLEAN :
         LET agent_id == Len(encrypted_demands) + 1
             contribution == create_agent_contribution(demand, agent_id, 1)
         IN  /\ commitments_for_coordinator' =
                    Append(commitments_for_coordinator, contribution[1])
             /\ openings_for_utility' = Append(openings_for_utility, contribution[2])
             /\ encrypted_demands' =
                    Append(encrypted_demands,
                           [encrypt_demand(demand, agent_id)
                              EXCEPT !.checksum_ok = intact])
    /\ UNCHANGED << scale_factor, coordinator, round_args, round_outcome, utility,
                    phase, components, probe, last_call, server >>

\* the ciphertexts a processed round hands to the utility
RoundCiphertexts == {"total", "average", "utilization", "detection"}

\* the ciphertext of that name after process_round: the aggregation result's
\* fields, the utilization the load balancer computes from the total, and
\* the score of get_detection_result
round_ciphertext(which) ==
    IF which = "total" THEN round_outcome.encrypted_total
    ELSE IF which = "average" THEN round_outcome.encrypted_average
    ELSE IF which = "utilization"
    THEN compute_encrypted_utilization(coordinator.grid_capacity_kw,
                                       round_outcome.encrypted_total)
    ELSE get_detection_result(coordinator).encrypted_score

\* the utility decrypts one of the round's ciphertexts
UtilityDecryptRound ==
    /\ phase = "aggregated"
    /\ \E which \in RoundCiphertexts :
         utility' = [ called |-> "decrypt_demand",
                      which |-> which,
                      outcome |-> decrypt_demand(secret_context.is_private,
                                                 round_ciphertext(which), RInt(0)) ]
    /\ phase' = "verified"
    /\ UNCHANGED << scale_factor, encrypted_demands, commitments_for_coordinator,
                    openings_for_utility, coordinator, round_args, round_outcome,
                    components, probe, last_call, server >>

NextTransit ==
    \/ SubmitContribution
    \/ ProcessRound
    \/ UtilityDecryptRound

SpecTransit == Init /\ [][NextTransit]_vars


(* ---------------------- aggregation of time series --------------------- *)

\* SmartGridFHE.encrypt_demand for a list of values: the CKKS vector has one
\* slot per value
encrypt_demand_series(values, agent_id) ==
    [ slots       |-> values,
      agent_id    |-> agent_id,
      vector_size |-> Len(values),
      checksum_ok |-> TRUE ]

\* the library's sum of two CKKS vectors (result + vec): slot by slot.  On
\* vectors of different sizes the library either refuses or repeats the
\* single slot of a one-slot vector, according to its version.
ckks_add(a, b, broadcasts) ==
    IF Len(a) = Len(b) THEN [slots |-> [i \in DOMAIN a |-> RAdd(a[i], b[i])]]
    ELSE IF broadcasts /\ Len(a) = 1
    THEN [slots |-> [i \in DOMAIN b |-> RAdd(a[1], b[i])]]
    ELSE IF broadcasts /\ Len(b) = 1
    THEN [slots |-> [i \in DOMAIN a |-> RAdd(a[i], b[1])]]
    ELSE [error |-> "ValueError"]

\* the loop of aggregate_demands: result = result + vec for each further
\* ciphertext of the list
RECURSIVE sum_series(_, _, _)
sum_series(result, rest, broadcasts) ==
    IF rest = << >> THEN [slots |-> result]
    ELSE LET added == ckks_add(result, Head(rest).slots, broadcasts)
         IN  IF IsError(added) THEN added
             ELSE sum_series(added.slots, Tail(rest), broadcasts)

\* SmartGridFHE.aggregate_demands on time series; _save_encrypted takes the
\* vector_size of the first ciphertext of the list
aggregate_demands_series(encrypted_list, broadcasts) ==
    IF Len(encrypted_list) = 0 THEN [error |-> "ValueError"]
    ELSE IF Len(encrypted_list) = 1 THEN encrypted_list[1]
    ELSE LET result == sum_series(encrypted_list[1].slots, Tail(encrypted_list),
                                  broadcasts)
         IN  IF IsError(result) THEN result
             ELSE [ slots       |-> result.slots,
                    agent_id    |-> "aggregated_aggregate",
                    vector_size |-> encrypted_list[1].vector_size,
                    checksum_ok |-> TRUE ]

\* SmartGridFHE.decrypt_demand on a time series: decrypted[:vector_size]
decrypt_demand_series(is_private, encrypted) ==
    IF ~is_private THEN [error |-> "NoSecretKeyError"]
    ELSE IF ~encrypted.checksum_ok THEN [error |-> "IntegrityError"]
    ELSE LET n == IF encrypted.vector_size < Len(encrypted.slots)
                  THEN encrypted.vector_size ELSE Len(encrypted.slots)
         IN  [plaintext |-> SubSeq(encrypted.slots, 1, n)]

\* what households contribute: one reading, or a series of two readings
SeriesContributions ==
    { [values |-> << RInt(3) >>, sampled |-> 1, agent_id |-> 1],
      [values |-> << RInt(5) >>, sampled |-> PEDERSEN_PRIME - 2, agent_id |-> 2],
      [values |-> << RInt(1), RInt(2) >>, sampled |-> 0, agent_id |-> 3] }

\* the non-empty lists of at most n elements of a set
RECURSIVE ListsUpTo(_, _)
ListsUpTo(S, n) ==
    IF n = 0 THEN { }
    ELSE LET shorter == ListsUpTo(S, n - 1)
         IN  { << a >> : a \in S } \cup shorter
             \cup { Append(l, a) : l \in shorter, a \in S }

\* the orders in which a list of n elements can be handed over
Orders(n) ==
    { f \in [1 .. n -> 1 .. n] : \A i, j \in 1 .. n : f[i] = f[j] => i = j }

\* the coordinator's view of a list of contributions: the aggregate
\* commitment, and what the utility decrypts from the aggregate ciphertext
aggregate_in_order(contributions, broadcasts) ==
    LET commitments == [i \in DOMAIN contributions |->
                          commit(contributions[i].values[1], contributions[i].sampled)]
        encrypted_list == [i \in DOMAIN contributions |->
                             encrypt_demand_series(contributions[i].values,
                                                   contributions[i].agent_id)]
        encrypted_total == aggregate_demands_series(encrypted_list, broadcasts)
    IN  [ commitment |-> aggregate_commitments(commitments).commitment,
          decrypted  |-> IF IsError(encrypted_total) THEN encrypted_total
                         ELSE decrypt_demand_series(secret_context.is_private,
                                                    encrypted_total) ]

\* a list of contributions is aggregated as it is and in another order
AggregateInOrder ==
    /\ \E contributions \in ListsUpTo(SeriesContributions, MaxSeries),
          broadcasts \in BOOLEAN :
         \E order \in Orders(Len(contributions)) :
           last_call' = [ op |-> "aggregate_demands",
                          args |-> contributions,
                          order |-> order,
                          broadcasts |-> broadcasts,
                          original |-> aggregate_in_order(contributions, broadcasts),
                          permuted |-> aggregate_in_order(
                                           [i \in DOMAIN contributions |->
                                              contributions[order[i]]],
                                           broadcasts) ]
    /\ UNCHANGED << scale_factor, round_vars >>


\* numbers of households whose demands are aggregated in one call
HouseholdCounts == {1, 2, 5, 50}

\* the demand of the first household, and the difference from one household
\* to the next
FirstDemands == { RInt(0), << 69, 20 >>, << 1, SubDiv * DEFAULT_SCALE_FACTOR >> }

DemandSteps == { RInt(0), << 1, 8 >>, << 3, SubDiv * DEFAULT_SCALE_FACTOR >> }

\* n households encrypt their demands, the aggregator aggregates them and
\* the utility decrypts the total and the average
AggregateMany ==
    /\ \E n \in HouseholdCounts, first \in FirstDemands, step \in DemandSteps,
          noise \in HENoise :
         LET values == [i \in 1 .. n |-> RAdd(first, RMul(RInt(i - 1), step))]
             encrypted_list == [i \in 1 .. n |-> encrypt_demand(values[i], i)]
             result == aggregate(encrypted_list)
         IN  last_call' = [ op |-> "aggregate_and_decrypt",
                            args |-> values,
                            noise |-> noise,
                            agent_count |-> result.agent_count,
                            total |-> decrypt_demand(secret_context.is_private,
                                                     result.encrypted_total, noise),
                            average |-> decrypt_demand(secret_context.is_private,
                                                       result.encrypted_average,
                                                       noise) ]
    /\ UNCHANGED << scale_factor, round_vars >>

NextAggregate ==
    \/ AggregateInOrder
    \/ AggregateMany

SpecAggregate == Init /\ [][NextAggregate]_vars


(* ------------------------- adaptive sensitivity ------------------------ *)

\* expected ranges (min, max) handed to the detector: the default, one that
\* does not start at 0 and an empty one
ExpectedRanges ==
    { DEFAULT_EXPECTED_RANGE,
      << RInt(50), RInt(150) >>,
      << RInt(100), RInt(100) >> }

\* where in the range a threshold lies, as a fraction of the span: outside,
\* on the ends, near them and towards the centre
RangePositions ==
    { << -1, 10 >>, RInt(0), << 1, 10 >>, << 2, 5 >>, << 1, 2 >>, << 9, 10 >>,
      RInt(1) }

\* the threshold at that position of the range (the lower end of an empty one)
threshold_at(expected_range, position) ==
    RAdd(expected_range[1],
         RMul(position, RSub(expected_range[2], expected_range[1])))

\* the detector is asked about the same value against two thresholds of one
\* expected range
DetectPair ==
    /\ \E expected_range \in ExpectedRanges, p1 \in RangePositions,
          p2 \in RangePositions, sensitivity \in { None, RInt(3) } :
         LET thresholds == << threshold_at(expected_range, p1),
                              threshold_at(expected_range, p2) >>
             encrypted_value == encrypt_demand(RInt(DEFAULT_GRID_CAPACITY_KW), 1)
         IN  last_call' =
               [ op |-> "detect_threshold_encrypted",
                 expected_range |-> expected_range,
                 thresholds |-> thresholds,
                 sensitivity |-> sensitivity,
                 adaptive |-> [i \in 1 .. 2 |->
                                 compute_adaptive_sensitivity(
                                     RInt(DETECTOR_DEFAULT_SENSITIVITY),
                                     thresholds[i], expected_range)],
                 results |-> [i \in 1 .. 2 |->
                                detect_threshold_encrypted(
                                    RInt(DETECTOR_DEFAULT_SENSITIVITY),
                                    encrypted_value, thresholds[i],
                                    expected_range, sensitivity)] ]
    /\ UNCHANGED << scale_factor, round_vars >>

NextSensitivity == DetectPair

SpecSensitivity == Init /\ [][NextSensitivity]_vars


(* ------------------ operations on the input ciphertext ----------------- *)

\* a detection that squares the ciphertext before the affine transform
detect_operations_squaring(default_sensitivity, encrypted_value, threshold, expected_range, sensitivity) ==
    LET k == IF IsNone(sensitivity)
             THEN compute_adaptive_sensitivity(default_sensitivity, threshold,
                                               expected_range)
             ELSE sensitivity
    IN  IF k[1] = 0 THEN << >>
        ELSE LET delta == RDiv(threshold, k)
             IN  IF delta[1] = 0 THEN << >>
                 ELSE LET slope == RDiv(Half, delta)
                          intercept == RSub(Half, RMul(threshold, slope))
                      IN  << [op |-> "multiply_encrypted", operand |-> encrypted_value.plain],
                             [op |-> "multiply_plain", operand |-> slope],
                             [op |-> "add_plain", operand |-> intercept] >>

\* the homomorphic operations detect_threshold_encrypted applies to the
\* vector it loads from the input ciphertext, in order:
\* result = vec_x * slope + intercept.  None when the call raises before.
detect_operations(default_sensitivity, encrypted_value, threshold, expected_range, sensitivity) ==
    LET k == IF IsNone(sensitivity)
             THEN compute_adaptive_sensitivity(default_sensitivity, threshold,
                                               expected_range)
             ELSE sensitivity
    IN  IF k[1] = 0 THEN << >>
        ELSE LET delta == RDiv(threshold, k)
             IN  IF delta[1] = 0 THEN << >>
                 ELSE LET slope == RDiv(Half, delta)
                          intercept == RSub(Half, RMul(threshold, slope))
                      IN  << [op |-> "multiply_plain", operand |-> slope],
                             [op |-> "add_plain", operand |-> intercept] >>

\* what a sequence of homomorphic operations makes of the encrypted value
RECURSIVE apply_operations(_, _)
apply_operations(plain, operations) ==
    IF operations = << >> THEN plain
    ELSE LET o == Head(operations)
         IN  apply_operations(IF o.op = "add_plain" THEN RAdd(plain, o.operand)
                              ELSE RMul(plain, o.operand),
                              Tail(operations))

\* one detection as the detector performs it: its arguments, what it
\* returned or raised and the operations it applied
detection(encrypted_value, threshold, sensitivity) ==
    [ threshold |-> threshold,
      result |-> detect_threshold_encrypted(RInt(DETECTOR_DEFAULT_SENSITIVITY),
                     encrypted_value, threshold, DEFAULT_EXPECTED_RANGE, sensitivity),
      operations |-> detect_operations(RInt(DETECTOR_DEFAULT_SENSITIVITY),
                         encrypted_value, threshold, DEFAULT_EXPECTED_RANGE,
                         sensitivity) ]

\* the detections batch_detect performs: one per threshold, in order, up to
\* the first that raises
RECURSIVE batch_detections(_, _)
batch_detections(encrypted_value, thresholds) ==
    IF thresholds = << >> THEN << >>
    ELSE LET first == detection(encrypted_value, Head(thresholds), None)
         IN  IF IsError(first.result) THEN << first >>
             ELSE << first >> \o batch_detections(encrypted_value, Tail(thresholds))

\* encrypted values the detector is asked about
DetectorInputs == { RInt(50), RInt(150) }

\* a single detection, kept with the operations it applied
DetectLogged ==
    /\ Len(probe) < MaxProbes
    /\ \E x \in DetectorInputs, threshold \in Thresholds, sensitivity \in Sensitivities :
         probe' = Append(probe,
                    [ call |-> "detect_threshold_encrypted",
                      x |-> x,
                      detections |-> << detection(encrypt_demand(x, 1), threshold,
                                                  sensitivity) >> ])
    /\ UNCHANGED << scale_factor, encrypted_demands, commitments_for_coordinator,
                    openings_for_utility, coordinator, round_args, round_outcome,
                    utility, phase, components, last_call, server >>

\* a batch detection, kept with the operations of each of its detections
BatchDetectLogged ==
    /\ Len(probe) < MaxProbes
    /\ \E x \in DetectorInputs, thresholds \in ThresholdLists :
         probe' = Append(probe,
                    [ call |-> "batch_detect",
                      x |-> x,
                      detections |-> batch_detections(encrypt_demand(x, 1),
                                                      thresholds) ])
    /\ UNCHANGED << scale_factor, encrypted_demands, commitments_for_coordinator,
                    openings_for_utility, coordinator, round_args, round_outcome,
                    utility, phase, components, last_call, server >>

NextDepth ==
    \/ DetectLogged
    \/ BatchDetectLogged

SpecDepth == Init /\ [][NextDepth]_vars


(* ----------------------- the households' contributions ----------------- *)

NextContribute == CreateContribution

SpecContribute == Init /\ [][NextContribute]_vars


(* ------------------------------ the server ----------------------------- *)

\* HouseholdAgent.receive_load_balance_command
receive_load_balance_command(reduction_factor) ==
    RMax(RInt(0), RMin(RInt(1), reduction_factor))

\* AgentManager.broadcast_load_balance
broadcast_load_balance(load_balance_factor, reduction_factor) ==
    [i \in DOMAIN load_balance_factor |->
        receive_load_balance_command(reduction_factor)]

\* GridCoordinator.get_reduction_factor on the decision received last
get_reduction_factor(last_decision) ==
    IF IsNone(last_decision) THEN RInt(1) ELSE last_decision.reduction_factor

\* what a household's demand generator gives in a round, in kW
GeneratedDemands == { RInt(30), RInt(48), RInt(55) }

\* AgentManager.collect_encrypted_demands: agent i encrypts what its demand
\* generator gives this round multiplied by its load balance factor
collect_encrypted_demands(load_balance_factor, generated) ==
    [i \in DOMAIN generated |->
        encrypt_demand(RMul(generated[i], load_balance_factor[i]), i)]

\* SmartGridServer.run_round called on self, statement by statement: the
\* count, the collection, the coordinator's round, the utility's decision,
\* and the broadcast to the agents when the decision's factor is below 1.0
RunRound(self, generated) ==
    \E encrypted \in { collect_encrypted_demands(self.load_balance_factor, generated) } :
    \E call \in { process_round(coordinator, encrypted, None) } :
    \E decision \in { IF IsError(call.returned) THEN call.returned
                      ELSE make_decision(self.grid_capacity_kw,
                                         call.returned.encrypted_total,
                                         call.returned.agent_count, RInt(0)) } :
        /\ server' =
              IF IsError(decision)
              THEN [self EXCEPT !.round_count = @ + 1]
              ELSE [self EXCEPT
                      !.round_count = @ + 1,
                      !._last_decision = decision,
                      !.load_balance_factor =
                          IF RLess(decision.reduction_factor, RInt(1))
                          THEN broadcast_load_balance(@, decision.reduction_factor)
                          ELSE @]
        /\ coordinator' = call.self
        /\ encrypted_demands' = encrypted
        /\ commitments_for_coordinator' = << >>
        /\ openings_for_utility' = << >>
        /\ round_args' = [ encrypted_demands |-> encrypted,
                           commitments |-> None,
                           kept |-> DOMAIN encrypted,
                           with_commitments |-> {} ]
        /\ round_outcome' = call.returned
        /\ utility' = [ called |-> "make_decision", result |-> decision ]
        /\ phase' = IF IsError(decision) THEN "failed" ELSE "decided"
        /\ UNCHANGED << scale_factor, components, probe, last_call >>

\* POST /round
PostRound ==
    /\ server.round_count < MaxRounds
    /\ \E generated \in [1 .. MaxAgents -> GeneratedDemands] :
         RunRound(server, generated)

\* the indices of the auto_run_loop tasks that have not returned
LiveLoops == { t \in DOMAIN server.loops : server.loops[t] # "done" }

\* POST /auto/start: when auto-run is off, the flag is set and a new
\* auto_run_loop task is created; otherwise nothing changes
ToggleAutoStart ==
    /\ ~server.auto_run
    /\ Len(server.loops) < MaxLoops
    /\ server' = [server EXCEPT !.auto_run = TRUE,
                                !.loops = Append(@, "created")]
    /\ UNCHANGED << scale_factor, encrypted_demands, commitments_for_coordinator,
                    openings_for_utility, coordinator, round_args, round_outcome,
                    utility, phase, components, probe, last_call >>

\* POST /auto/stop
ToggleAutoStop ==
    /\ server.auto_run
    /\ server' = [server EXCEPT !.auto_run = FALSE]
    /\ UNCHANGED << scale_factor, encrypted_demands, commitments_for_coordinator,
                    openings_for_utility, coordinator, round_args, round_outcome,
                    utility, phase, components, probe, last_call >>

\* an auto_run_loop task is scheduled, for the first time or after its
\* sleep: it returns when the flag is off, and otherwise runs a round (an
\* exception of which it catches) and sleeps again
AutoRunLoop ==
    \E t \in LiveLoops :
      IF ~server.auto_run
      THEN /\ server' = [server EXCEPT !.loops[t] = "done"]
           /\ UNCHANGED << scale_factor, encrypted_demands,
                           commitments_for_coordinator, openings_for_utility,
                           coordinator, round_args, round_outcome, utility, phase,
                           components, probe, last_call >>
      ELSE /\ server.round_count < MaxRounds
           /\ \E generated \in [1 .. MaxAgents -> GeneratedDemands] :
                RunRound([server EXCEPT !.loops[t] = "sleeping"], generated)

NextServer ==
    \/ PostRound
    \/ ToggleAutoStart
    \/ ToggleAutoStop
    \/ AutoRunLoop

SpecServer == Init /\ [][NextServer]_vars


(* ============================== claims ================================= *)

\* the coordinator aggregated every ciphertext and every commitment
HonestRound ==
    /\ round_args.kept = DOMAIN encrypted_demands
    /\ round_args.with_commitments = DOMAIN encrypted_demands

\* the sum of the values the agents contributed
TrueSum == RSum([i \in DOMAIN openings_for_utility |-> openings_for_utility[i].value])

\* verify_aggregate has run on an honestly aggregated round
VerifiedHonest ==
    /\ phase = "verified"
    /\ utility.called = "verify_aggregate"
    /\ HonestRound

\* C1: an honest round verifies: for every non-empty list of contributions,
\* verify(trueSum, agg_c, agg_o) on the aggregate of all commitments and the
\* aggregate of all openings returns valid = true.
C1_HonestRoundVerifies ==
    ( /\ VerifiedHonest
      /\ utility.noise = RInt(0)
      /\ utility.offset = RInt(0) )
    => /\ utility.claimed_sum = TrueSum
       /\ utility.result.is_valid

\* C2: a wrong total is detected: on an honest aggregate, verify(trueSum + e)
\* returns valid = false for every nonzero e of size at least 1/S, and the
\* discrepancy of the result is |e|.
C2_WrongTotalDetected ==
    ( /\ VerifiedHonest
      /\ utility.noise = RInt(0)
      /\ utility.offset # RInt(0)
      /\ RLeq(RInt(1), RMul(RAbs(utility.offset), RInt(scale_factor))) )
    => /\ ~utility.result.is_valid
       /\ utility.result.discrepancy = RAbs(utility.offset)

\* C3: verification tolerates the approximation of the HE scheme: when the
\* claimed sum is the decrypted aggregate and that is within 1e-3 of the true
\* sum, verify returns valid for an honest aggregator.
C3_ToleratesHENoise ==
    ( /\ VerifiedHonest
      /\ utility.offset = RInt(0)
      /\ RLeq(RAbs(RSub(utility.claimed_sum, TrueSum)), HE_TOLERANCE) )
    => utility.result.is_valid

\* C4: commitment algebra: the product mod p of the individual commitments
\* equals the commitment to (sum of the values; sum of the randomness).
C4_CommitmentAlgebra ==
    commitments_for_coordinator # << >>
    => product_mod(1, commitments_for_coordinator)
         = commit(TrueSum,
                  ISum([i \in DOMAIN openings_for_utility |->
                          openings_for_utility[i].randomness])).commitment

\* C5: exclusion is detected with certainty: when the coordinator leaves
\* households out of both the ciphertext sum and the commitment product and
\* the utility holds all openings, verify_aggregate on the decrypted sum
\* returns not valid, whatever the values and blinding factors.  Stated for
\* rounds where a household left out had a demand of at least 1/S.
C5_ExclusionDetected ==
    ( /\ phase = "verified"
      /\ utility.called = "verify_aggregate"
      /\ round_args.kept # DOMAIN encrypted_demands
      /\ round_args.with_commitments = round_args.kept
      /\ \E i \in DOMAIN encrypted_demands \ round_args.kept :
           scaled(openings_for_utility[i].value) >= 1
      /\ utility.noise = RInt(0)
      /\ utility.offset = RInt(0) )
    => ~utility.result.is_valid

\* C6: the aggregator never possesses an opening: what process_round is
\* handed and what the coordinator stores holds commitment integers and
\* ciphertexts only, never a contributor's value or blinding randomness.
C6_AggregatorHoldsNoOpening ==
    /\ \A i \in DOMAIN round_args.commitments :
         DOMAIN round_args.commitments[i] \cap {"value", "randomness"} = {}
    /\ DOMAIN coordinator._last_commitment_aggregate
         \cap {"value", "randomness", "total_value", "total_randomness"} = {}

\* C7: the aggregator has no decryption capability: no aggregator-role
\* component is constructed from a secret-bearing context, the handle of
\* every constructed one is public-only, and a decrypt through it fails with
\* NoSecretKeyError and returns no plaintext.
C7_AggregatorCannotDecrypt ==
    \A i \in DOMAIN components :
      LET c == components[i]
      IN  /\ c.context_bytes.is_private => IsError(c.built)
          /\ ~IsError(c.built) => ~c.built.fhe.is_private
          /\ ~IsNone(c.attempt) =>
               /\ IsError(c.attempt.outcome)
               /\ c.attempt.outcome.error = "NoSecretKeyError"
               /\ "plaintext" \notin DOMAIN c.attempt.outcome

\* C7 witness: a construction from a secret-bearing context was refused, and
\* a constructed component has attempted a decryption.
C7_Witness ==
    /\ \E i \in DOMAIN components :
         components[i].context_bytes.is_private /\ IsError(components[i].built)
    /\ \E i \in DOMAIN components :
         ~IsError(components[i].built) /\ ~IsNone(components[i].attempt)

\* the commitment the specification describes: m = round(value * S)
commit_rounded(value, randomness) ==
    ( pow(PEDERSEN_G, PyMod(round(RMul(value, RInt(scale_factor))), group_order),
          PEDERSEN_PRIME)
      * pow(PEDERSEN_H, PyMod(randomness, group_order), PEDERSEN_PRIME) )
    % PEDERSEN_PRIME

\* C8: commit(value, r) returns C = g^m * h^r mod p with m = round(value * S)
\* for every value, also between grid points and negative, and verify
\* encodes the claimed sum with the same rounding.
C8_CommitRounds ==
    /\ \A i \in DOMAIN commitments_for_coordinator :
         commitments_for_coordinator[i].commitment
           = commit_rounded(openings_for_utility[i].value,
                            openings_for_utility[i].randomness)
    /\ ( phase = "verified" /\ utility.called = "verify_aggregate" )
       => ( utility.result.is_valid
            <=> coordinator._last_commitment_aggregate.commitment
                  = commit_rounded(utility.claimed_sum,
                                   utility.opening_aggregate.total_randomness) )

\* C9: UtilityDecisionMaker.verify_aggregation aggregates the round's openings
\* and delegates to verify: it returns a VerificationResult whose valid flag
\* is the one verify(claimed_sum, aggregate commitment, aggregate of the
\* openings) gives.
C9_VerifyAggregationDelegates ==
    ( phase = "verified" /\ utility.called = "verify_aggregation" )
    => /\ ~IsError(utility.result)
       /\ utility.result.is_valid
            = verify(utility.claimed_sum, coordinator._last_commitment_aggregate,
                     aggregate_openings(openings_for_utility)).is_valid

\* a detection with a positive threshold and a positive sensitivity
PositiveProbe(d) == d.threshold[1] > 0 /\ effective_sensitivity(d.threshold, d.sensitivity)[1] > 0

CryptoConfigError == "ValueError"

\* C11: detect_threshold_encrypted, and batch_detect for a list containing 0,
\* called with threshold T = 0 raises CryptoConfigError rather than dividing
\* by zero, and produces no comparison result.
C11_ZeroThresholdRejected ==
    /\ \A i \in DOMAIN probe :
         probe[i].threshold = RInt(0) =>
           /\ IsError(probe[i].result)
           /\ probe[i].result.error = CryptoConfigError
    /\ ( /\ last_call.op = "batch_detect"
         /\ \E i \in DOMAIN last_call.thresholds : last_call.thresholds[i] = RInt(0) )
       => /\ IsError(last_call.result)
          /\ last_call.result.error = CryptoConfigError

\* a value clamped to [0, 1]
Clamp01(a) == RMax(RInt(0), RMin(RInt(1), a))

\* C12: make_decision maps utilization = decrypted total / capacity into the
\* ordered tiers <= 0.80 none/1.0, <= 0.90 reduce_10/0.90, <= 0.95
\* reduce_20/0.80, <= 1.00 reduce_30/0.70, above critical/0.50, and the
\* decision carries the decrypted total.
C12_DecisionTiers ==
    ( last_call.op = "make_decision" /\ last_call.encrypted_total.checksum_ok )
    => LET d == last_call.result
           total == RAdd(last_call.encrypted_total.plain, last_call.noise)
           u == RDiv(total, last_call.grid_capacity_kw)
       IN  /\ ~IsError(d)
           /\ d.total_demand_kw = total
           /\ RLeq(u, << 4, 5 >>)
                => d.action = "none" /\ d.reduction_factor = RInt(1)
           /\ ( RLess(<< 4, 5 >>, u) /\ RLeq(u, << 9, 10 >>) )
                => d.action = "reduce_10" /\ d.reduction_factor = << 9, 10 >>
           /\ ( RLess(<< 9, 10 >>, u) /\ RLeq(u, << 19, 20 >>) )
                => d.action = "reduce_20" /\ d.reduction_factor = << 4, 5 >>
           /\ ( RLess(<< 19, 20 >>, u) /\ RLeq(u, RInt(1)) )
                => d.action = "reduce_30" /\ d.reduction_factor = << 7, 10 >>
           /\ RLess(RInt(1), u)
                => d.action = "critical" /\ d.reduction_factor = << 1, 2 >>

\* C12 witness: scenario C, a decrypted total of 71.25 kW on a 75 kW grid
\* decided as reduce_20 with factor 0.80.
C12_Witness ==
    /\ last_call.op = "make_decision"
    /\ last_call.grid_capacity_kw = RInt(75)
    /\ ~IsError(last_call.result)
    /\ last_call.result.total_demand_kw = << 285, 4 >>
    /\ last_call.result.action = "reduce_20"
    /\ last_call.result.reduction_factor = << 4, 5 >>

\* C13: interpret_score puts every decrypted score into exactly one zone:
\* below 0.3 "below" with confidence 1 - score/0.3, above 0.7 "above" with
\* confidence (score - 0.7)/0.3, otherwise "uncertain" with confidence
\* proportional to |score - 0.5|; the confidence is clamped to [0, 1] for
\* every input, also for scores outside [0, 1].
C13_InterpretScoreZones ==
    last_call.op = "interpret_score"
    => LET score == last_call.decrypted_score
           r == last_call.result
       IN  /\ r.zone \in {"below", "above", "uncertain"}
           /\ r.zone = "below" <=> RLess(score, << 3, 10 >>)
           /\ r.zone = "above" <=> RLess(<< 7, 10 >>, score)
           /\ r.zone = "below"
                => r.confidence = Clamp01(RSub(RInt(1), RDiv(score, << 3, 10 >>)))
           /\ r.zone = "above"
                => r.confidence = Clamp01(RDiv(RSub(score, << 7, 10 >>), << 3, 10 >>))
           /\ r.zone = "uncertain"
                => r.confidence = RMul(RInt(5), RAbs(RSub(score, Half)))
           /\ RLeq(RInt(0), r.confidence) /\ RLeq(r.confidence, RInt(1))

\* C13 witness: a score below 0 was interpreted as "below" with confidence 1,
\* where 1 - score/0.3 is above 1.
C13_Witness ==
    /\ last_call.op = "interpret_score"
    /\ RLess(last_call.decrypted_score, RInt(0))
    /\ last_call.result.zone = "below"
    /\ last_call.result.confidence = RInt(1)

\* C14: interpret_encrypted_comparison decrypts the score ciphertext of a
\* comparison result and returns the zone and confidence interpret_score
\* gives for the decrypted score.
C14_InterpretComparisonDelegates ==
    last_call.op = "interpret_encrypted_comparison"
    => LET expected == interpret_score(
                           last_call.comparison_result.encrypted_score.plain, None)
       IN  /\ ~IsError(last_call.result)
           /\ last_call.result.zone = expected.zone
           /\ last_call.result.confidence = expected.confidence


\* process_round was handed commitments that match the ciphertexts
RoundHasCommitments ==
    /\ ~IsNone(round_args.commitments)
    /\ Len(round_args.commitments) > 0
    /\ Len(round_args.commitments) = Len(round_args.encrypted_demands)

\* C15: rounds are independent: after a processed round, what the coordinator
\* exposes (get_commitment_aggregate, get_detection_result, the last
\* aggregation) is computed from that round's inputs only;
\* get_commitment_aggregate never returns an earlier round's aggregate after
\* a round without commitments or with a list that does not match.
C15_RoundsIndependent ==
    phase = "aggregated"
    => /\ coordinator._last_aggregation = round_outcome
       /\ get_detection_result(coordinator).encrypted_score.plain
            = detect_threshold_encrypted(RInt(DETECTOR_DEFAULT_SENSITIVITY),
                  round_outcome.encrypted_total, coordinator.grid_capacity_kw,
                  << RInt(0), RMul(coordinator.grid_capacity_kw, RInt(3)) >>,
                  None).encrypted_score.plain
       /\ IF RoundHasCommitments
          THEN get_commitment_aggregate(coordinator)
                 = aggregate_commitments(round_args.commitments)
          ELSE IsNone(get_commitment_aggregate(coordinator))

\* C16: a failed round is local: when process_round fails at any step, no
\* partial aggregate is returned and the coordinator's last aggregation, last
\* detection and last commitment aggregate are what they were before the
\* call.
C16_FailedRoundIsLocal ==
    [][ ( phase = "collect" /\ phase' = "failed" )
        => /\ IsError(round_outcome')
           /\ coordinator'._last_aggregation = coordinator._last_aggregation
           /\ coordinator'._last_detection = coordinator._last_detection
           /\ coordinator'._last_commitment_aggregate
                = coordinator._last_commitment_aggregate ]_vars

\* C17: backpressure: the aggregator caps the contributions it accepts in a
\* round at the expected agent count and rejects what goes beyond; with each
\* household expected once, an accepted round holds no more contributions
\* than it has households.
C17_ContributionsCapped ==
    phase = "aggregated"
    => Len(round_args.encrypted_demands)
         <= Cardinality({ round_args.encrypted_demands[i].agent_id :
                            i \in DOMAIN round_args.encrypted_demands })

\* C18: empty input is an error: aggregate_commitments, aggregate_openings
\* and ciphertext aggregation each fail with CryptoConfigError on an empty
\* list and return no aggregate.
C18_EmptyInputRejected ==
    ( /\ last_call.op \in {"aggregate_commitments", "aggregate_openings", "aggregate"}
      /\ last_call.args = << >> )
    => /\ IsError(last_call.result)
       /\ last_call.result.error = CryptoConfigError
       /\ DOMAIN last_call.result = {"error"}

\* C18 witness: each of the three aggregations was called on an empty list
\* (one of them in this state) and raised.
C18_Witness ==
    /\ last_call.op = "aggregate_openings"
    /\ last_call.args = << >>
    /\ IsError(last_call.result)

\* C19: a commitment scheme configured with a scale factor S <= 0 is rejected
\* with CryptoConfigError, and no commitment is produced under such a scale
\* factor.
C19_NonPositiveScaleRejected ==
    /\ ( last_call.op = "PedersenCommitmentScheme" /\ last_call.args <= 0 )
       => /\ IsError(last_call.result)
          /\ last_call.result.error = CryptoConfigError
    /\ scale_factor > 0
    /\ last_call.op = "commit" => last_call.result.scale_factor > 0

\* C20: on a secret-bearing context, decrypt of a ciphertext whose stored
\* checksum does not match its bytes fails with IntegrityError and returns
\* no plaintext; a ciphertext whose checksum matches is decrypted.
C20_ChecksumMismatchRejected ==
    last_call.op = "decrypt_demand"
    => /\ ~last_call.args.checksum_ok
            => /\ IsError(last_call.result)
               /\ last_call.result.error = "IntegrityError"
               /\ "plaintext" \notin DOMAIN last_call.result
       /\ last_call.args.checksum_ok
            => /\ ~IsError(last_call.result)
               /\ last_call.result.plaintext = RAdd(last_call.args.plain, last_call.noise)

\* C20 witness: a decryption of a ciphertext with a checksum mismatch was
\* refused.
C20_Witness ==
    /\ last_call.op = "decrypt_demand"
    /\ ~last_call.args.checksum_ok
    /\ IsError(last_call.result)


\* the error the specification calls IntegrityError
IntegrityError == "IntegrityError"

\* a contribution the round was processed on has a checksum that does not
\* match its ciphertext
RoundTampered ==
    \E i \in DOMAIN round_args.encrypted_demands :
        ~round_args.encrypted_demands[i].checksum_ok

\* C21: tampering rejects the round: when a contribution submitted to a round
\* has a checksum that does not match its ciphertext, no ciphertext the round
\* yields (total, average, utilization, detection score) is decrypted
\* successfully by the utility; the decryption ends in an integrity error.
C21_TamperingRejectsRound ==
    ( /\ phase = "verified"
      /\ utility.called = "decrypt_demand"
      /\ RoundTampered )
    => /\ IsError(utility.outcome)
       /\ utility.outcome.error = IntegrityError


\* C22: order independence: for every list of contributions and every
\* permutation of it, the aggregate commitment is the same integer and the
\* aggregate ciphertext decrypts to the same vector, values and length, as
\* for the original order.
C22_OrderIndependence ==
    ( /\ last_call.op = "aggregate_demands"
      /\ "order" \in DOMAIN last_call
      /\ ~IsError(last_call.original.decrypted) )
    => /\ last_call.permuted.commitment = last_call.original.commitment
       /\ last_call.permuted.decrypted = last_call.original.decrypted


\* C23: homomorphic aggregation: for values v1..vn, n in {1, 2, 5, 50},
\* decrypting the aggregate of their ciphertexts gives the sum of the vi
\* (within the scheme's tolerance), the reported agent_count is n, and the
\* encrypted average decrypts to that sum divided by n.
C23_HomomorphicAggregation ==
    last_call.op = "aggregate_and_decrypt"
    => LET n == Len(last_call.args)
           sum == RSum(last_call.args)
       IN  /\ ~IsError(last_call.total)
           /\ ~IsError(last_call.average)
           /\ last_call.agent_count = n
           /\ RLeq(RAbs(RSub(last_call.total.plaintext, sum)), HE_TOLERANCE)
           /\ RLeq(RAbs(RSub(last_call.average.plaintext, RDiv(sum, RInt(n)))),
                   HE_TOLERANCE)
           /\ last_call.noise = RInt(0)
              => /\ last_call.total.plaintext = sum
                 /\ last_call.average.plaintext = RDiv(sum, RInt(n))

\* fifty households were aggregated and their demands differ
C23_Witness ==
    /\ last_call.op = "aggregate_and_decrypt"
    /\ Len(last_call.args) = 50
    /\ last_call.args[1] # last_call.args[50]
    /\ last_call.agent_count = 50
    /\ ~IsError(last_call.average)


\* C28: aggregation leaves its inputs unchanged: after process_round every
\* input ciphertext object has the ciphertext, checksum and metadata it had
\* before the call (the returned aggregate being an object of its own, also
\* for a list of a single element).
C28_AggregationLeavesInputs ==
    [][ (phase = "collect" /\ phase' = "aggregated")
        => encrypted_demands' = encrypted_demands ]_vars


\* clamp(a, lo, hi)
Clamp(a, lo, hi) == RMax(lo, RMin(hi, a))

\* the position of a threshold in an expected range with max > min
PositionIn(expected_range, threshold) ==
    RDiv(RSub(threshold, expected_range[1]),
         RSub(expected_range[2], expected_range[1]))

EdgeDistance(expected_range, threshold) ==
    LET position == PositionIn(expected_range, threshold)
    IN  RMin(position, RSub(RInt(1), position))

\* C27: sensitivity direction: for a fixed expected range, a threshold
\* nearer an edge of the range gets a sensitivity k no higher than a
\* threshold nearer the centre.
C27_SensitivityDirection ==
    ( /\ last_call.op = "detect_threshold_encrypted"
      /\ RLess(last_call.expected_range[1], last_call.expected_range[2])
      /\ RLeq(RInt(0), EdgeDistance(last_call.expected_range, last_call.thresholds[1]))
      /\ RLess(EdgeDistance(last_call.expected_range, last_call.thresholds[1]),
               EdgeDistance(last_call.expected_range, last_call.thresholds[2])) )
    => RLeq(last_call.adaptive[1], last_call.adaptive[2])


\* how many operations of that kind a sequence of operations holds
OperationCount(operations, kind) ==
    Cardinality({ i \in DOMAIN operations : operations[i].op = kind })

C26_CommitmentHasOpening ==
    /\ Len(openings_for_utility) = Len(commitments_for_coordinator)
    /\ \A i \in DOMAIN commitments_for_coordinator :
         LET c == commitments_for_coordinator[i]
             o == openings_for_utility[i]
         IN  /\ commit(o.value, o.randomness) = c
             /\ o.scale_factor = c.scale_factor
             /\ o.randomness \in 0 .. PEDERSEN_PRIME - 2
             /\ << c, o >> = create_agent_contribution(o.value, o.agent_id,
                                                       o.randomness)

\* two households contributed with different blinding factors
C26_Witness ==
    /\ Len(commitments_for_coordinator) = 2
    /\ openings_for_utility[1].randomness = PEDERSEN_PRIME - 2
    /\ openings_for_utility[2].randomness = 0
    /\ openings_for_utility[1].value = openings_for_utility[2].value
    /\ commitments_for_coordinator[1].commitment
         # commitments_for_coordinator[2].commitment


\* C29: agents follow the latest decision: after every completed round each
\* agent's load_balance_factor equals the reduction factor of that round's
\* decision, which is what the coordinator's get_reduction_factor reports;
\* a round that decides action none after an earlier reduction puts the
\* agents back to factor 1.0.
C29_AgentsFollowDecision ==
    ( /\ phase = "decided"
      /\ ~IsNone(server._last_decision) )
    => /\ get_reduction_factor(server._last_decision)
            = utility.result.reduction_factor
       /\ \A i \in DOMAIN server.load_balance_factor :
            server.load_balance_factor[i]
               = get_reduction_factor(server._last_decision)

\* C30: at most one auto-run loop is active at any time: for every
\* interleaving of start and stop requests with the loop's sleep, no two
\* auto_run_loop tasks run rounds side by side (and after a stop that no
\* start follows the loop stops running rounds).  While the flag is on,
\* every task that has not returned runs a round when it is scheduled next.
C30_SingleAutoRunLoop ==
    server.auto_run => Cardinality(LiveLoops) <= 1

====
